---------------------------- MODULE Spec2Model ----------------------------
(***************************************************************************)
(* RPC proxy of src/server.mjs (lines 2316-2481): a fixed pool of upstream *)
(* JSON-RPC endpoints with a per-endpoint cooldown timestamp, a short-TTL  *)
(* response cache for a whitelist of read-only methods, and the handler of *)
(* POST /api/rpc-proxy that walks the pool in order.                       *)
(*                                                                         *)
(* The handler is an async function: it runs synchronously between its     *)
(* await points (the fetch of line 2343 and the response.json() of line    *)
(* 2362), so each action below is one such synchronous run.  Several       *)
(* dispatches may be suspended at an await at the same time.               *)
(*                                                                         *)
(* JavaScript values are tagged records [t |-> type, v |-> value]; text    *)
(* messages are sequences of words.  Date.now() is the variable now, which *)
(* never decreases.                                                        *)
(***************************************************************************)
EXTENDS Integers, Sequences, FiniteSets, TLC

(* ------------------------------ bounds --------------------------------- *)

\* number of dispatches that can be in flight at the same time
NumProcs == 2

\* number of endpoints of the pool that the model keeps (a prefix of the list)
NumEndpoints == 2

\* the clock advances at most this many times
MaxTicks == 1

\* at most this many requests arrive
MaxDispatches == 2

\* the memory store handles at most this many requests
MaxMemOps == 3

\* MEMORY_MAX_KEYS_PER_NAMESPACE, scaled down from 1000
MEMORY_MAX_KEYS_PER_NAMESPACE == 2

\* MEMORY_MAX_VALUE_SIZE, scaled down from 10 * 1024
MEMORY_MAX_VALUE_SIZE == 6

(* --------------------------- JavaScript values ------------------------- *)

JsUndefined == [t |-> "undefined"]

JsNull == [t |-> "null"]

JsStr(s) == [t |-> "string", v |-> s]

JsNum(n) == [t |-> "number", v |-> n]

JsArr(s) == [t |-> "array", v |-> s]

\* a string kept as its sequence of characters
JsChars(s) == [t |-> "chars", v |-> s]

\* the number Infinity, which JSON.parse yields for a literal like 1e999
JsInfinity == [t |-> "infinity"]

JsBool(b) == [t |-> "boolean", v |-> b]

\* a string kept as its sequence of words
JsText(w) == [t |-> "text", v |-> w]

JsErr(c, m) == [t |-> "object", code |-> c, message |-> m]

\* ToBoolean of the values that occur here
Truthy(x) ==
    CASE x.t = "undefined" -> FALSE
      [] x.t = "null" -> FALSE
      [] x.t = "string" -> x.v # ""
      [] x.t = "number" -> x.v # 0
      [] x.t = "boolean" -> x.v
      [] x.t = "text" -> x.v # <<>>
      [] x.t = "chars" -> x.v # <<>>
      [] OTHER -> TRUE

\* a destructuring default (line 2381) applies to undefined only
Default(x, d) == IF x.t = "undefined" THEN d ELSE x

\* String.prototype.includes on word sequences
Includes(msg, pat) ==
    \E k \in 1..(Len(msg) - Len(pat) + 1) :
        SubSeq(msg, k, k + Len(pat) - 1) = pat

(* --------------------------- program constants ------------------------- *)

\* names of the configured endpoints, in order
EndpointNames ==
    <<"base-mainnet", "base-publicnode", "1rpc", "llamarpc", "publicnode-alt">>

RPC_ENDPOINTS == SubSeq(EndpointNames, 1, NumEndpoints)

Endpoints == 1..Len(RPC_ENDPOINTS)

CACHE_TTL_MS == 3000

COOLDOWN_MS == 30000

TIMEOUT_MS == 8000

cacheable == {"eth_blockNumber", "eth_chainId", "net_version", "eth_gasPrice"}

Procs == 1..NumProcs

(* ------------------------------ inputs --------------------------------- *)

\* req.body is undefined when the request carried no JSON body
NoBody == [t |-> "undefined"]

Body(m, ps, i) == [t |-> "object", method |-> m, params |-> ps, id |-> i]

Methods ==
    {JsUndefined, JsStr(""), JsStr("eth_blockNumber"), JsStr("eth_getBalance")}

ParamValues == {JsUndefined}

IdValues == {JsUndefined}

Requests ==
    {NoBody} \cup
    {Body(m, ps, i) : m \in Methods, ps \in ParamValues, i \in IdValues}

\* HTTP statuses an upstream endpoint answers with
HttpStatuses == {200, 429, 500, 503}

Unparsable == [t |-> "unparsable"]

Data(r, e) == [t |-> "object", result |-> r, error |-> e]

\* bodies an upstream endpoint answers with under a success status
Bodies ==
    { Unparsable,
      Data(JsStr("0x64"), JsUndefined),
      Data(JsStr("0x65"), JsUndefined),
      Data(JsUndefined, JsErr(-32601, <<"method", "not", "found">>)),
      Data(JsStr("0x64"), JsErr(-32601, <<"method", "not", "found">>)),
      Data(JsUndefined, JsErr(-32005, <<"limit", "exceeded">>)),
      Data(JsUndefined, JsErr(-32000, <<"rate", "limit", "reached">>)) }

\* values of req.body.params whose cache keys are compared
KeyParams ==
    {JsUndefined, JsNull, JsBool(FALSE), JsNum(0), JsStr(""), JsArr(<<>>),
     JsNum(1), JsStr("latest"), JsArr(<<JsStr("latest")>>),
     JsArr(<<JsStr("latest"), JsBool(FALSE)>>)}

\* calls whose cache keys are compared
KeyCalls ==
    {Body(JsStr(m), ps, JsUndefined) :
        m \in {"eth_blockNumber", "eth_chainId", "eth_getBalance"},
        ps \in KeyParams}

\* requests for two whitelisted methods
CacheRequests ==
    {Body(JsStr(m), JsUndefined, JsUndefined) :
        m \in {"eth_blockNumber", "eth_chainId"}}

\* ids a request carries
WideIds == {JsUndefined, JsNum(0), JsNum(7)}

\* requests with and without an id, with and without a method
IdRequests ==
    {NoBody} \cup
    {Body(m, JsUndefined, i) :
        m \in {JsUndefined, JsStr("eth_getBalance")}, i \in WideIds}

\* the clock advances by one of these
TickSteps == {1000, 3000, 30000}

(* ------------------------------- state --------------------------------- *)

VARIABLES
    now,              \* Date.now()
    rateLimitedUntil, \* RPC_ENDPOINTS[i].rateLimitedUntil
    rpcCache,         \* the Map rpcCache: key -> [result, expiresAt]
    pc,               \* where each dispatch is: idle, fetch, json, done
    req,              \* req.body of each dispatch
    idx,              \* the endpoint the for loop of the dispatch is at
    retries,          \* let retries
    lastError,        \* let lastError (its message)
    startTime,        \* const startTime
    attemptStart,     \* when the pending fetch and its abort timer started
    resp,             \* the response sent by the dispatch
    attempts,         \* history: the upstream calls of the dispatch, in order
    ticks,            \* history: how often the clock advanced
    started,          \* history: how many requests each dispatcher received
    keyArgs,          \* the calls whose cache keys are compared
    keyOut,           \* the cache keys computed for them
    quietSince,       \* history: when the proxy last gave up with no other
                      \* dispatch in flight and none started since, else -1
    paymentLog,       \* payments.log: entries written for the request of
                      \* each dispatcher
    agent_memory,     \* the table agent_memory: <<namespace, key>> -> row
    memRes,           \* the response of the last memory request
    memGiven,         \* history: the value given in the store of each row
    memOps            \* history: how many memory requests were handled

vars == <<now, rateLimitedUntil, rpcCache, pc, req, idx, retries, lastError,
          startTime, attemptStart, resp, attempts, ticks, started,
          keyArgs, keyOut, quietSince, paymentLog, agent_memory, memRes,
          memGiven, memOps>>

\* the variables of the cache-key function and of the memory store
keyVars == <<keyArgs, keyOut>>

memVars == <<agent_memory, memRes, memGiven, memOps>>

\* the variables of the RPC proxy other than the clock
proxyVars ==
    <<rateLimitedUntil, rpcCache, pc, req, idx, retries, lastError, startTime,
      attemptStart, resp, attempts, started, quietSince, paymentLog>>

(* --------------------------- pure functions ---------------------------- *)

RECURSIVE JoinComma(_)
RECURSIVE JSONstringify(_)
\* JSON.stringify of the values that occur as params
JSONstringify(x) ==
    CASE x.t = "null" -> "null"
      [] x.t = "string" -> "\"" \o x.v \o "\""
      [] x.t = "number" -> ToString(x.v)
      [] x.t = "boolean" -> IF x.v THEN "true" ELSE "false"
      [] x.t = "infinity" -> "null"
      [] x.t = "array" -> "[" \o JoinComma(x.v) \o "]"

JoinComma(s) ==
    IF s = <<>> THEN ""
    ELSE IF Len(s) = 1 THEN JSONstringify(s[1])
    ELSE JSONstringify(s[1]) \o "," \o JoinComma(Tail(s))

\* x || d
OrElse(x, d) == IF Truthy(x) THEN x ELSE d

\* variant: the key does not depend on the params
getCacheKey_MethodOnly(method, params) ==
    IF ~(method.t = "string" /\ method.v \in cacheable) THEN JsNull
    ELSE JsStr(method.v \o ":")

\* variant: the whitelist is not consulted
getCacheKey_NoWhitelist(method, params) ==
    IF method.t # "string" THEN JsNull
    ELSE JsStr(method.v \o ":" \o JSONstringify(OrElse(params, JsArr(<<>>))))

getCacheKey(method, params) ==
    IF ~(method.t = "string" /\ method.v \in cacheable) THEN JsNull
    ELSE JsStr(method.v \o ":" \o JSONstringify(OrElse(params, JsArr(<<>>))))

\* variant: only an absent method counts as missing
MethodMissing_OnlyUndefined(method) == method.t = "undefined"

\* if (!method), line 2383
MethodMissing(method) == ~Truthy(method)

\* variant: an entry is still served at the instant it expires
CacheHit_AtExpiry(cache, key, t) ==
    /\ Truthy(key)
    /\ key.v \in DOMAIN cache
    /\ cache[key.v].expiresAt >= t

\* cached && cached.expiresAt > Date.now(), line 2395
CacheHit(cache, key, t) ==
    /\ Truthy(key)
    /\ key.v \in DOMAIN cache
    /\ cache[key.v].expiresAt > t

\* variant: the cooldown is not looked at
InCooldown_Ignored(until, t) == FALSE

\* variant: an endpoint is still skipped at the instant its cooldown ends
InCooldown_AtDeadline(until, t) == until >= t /\ until # 0

\* endpoint.rateLimitedUntil > Date.now(), line 2417
InCooldown(until, t) == until > t

\* variant: every non-success status is taken for throttling
IsRateLimitStatus_AnyFailure(status) == status < 200 \/ status > 299

\* variant: only 429 is taken for throttling
IsRateLimitStatus_Only429(status) == status = 429

\* line 2352
IsRateLimitStatus(status) == status = 429 \/ status = 503 \/ status = 1015

\* response.ok
ResponseOk(status) == status >= 200 /\ status <= 299

\* variant: every JSON-RPC error is taken for throttling
IsRpcRateLimit_AnyError(data) == Truthy(data.error)

\* line 2365
IsRpcRateLimit(data) ==
    /\ Truthy(data.error)
    /\ \/ data.error.code = -32005
       \/ Includes(data.error.message, <<"rate", "limit">>)

\* variant: the cooldown is subtracted
MarkRateLimited_Backwards(rl, e, t) == [rl EXCEPT ![e] = t - COOLDOWN_MS]

\* variant: the cooldown lasts a minute
MarkRateLimited_Minute(rl, e, t) == [rl EXCEPT ![e] = t + 2 * COOLDOWN_MS]

\* variant: a cooldown that is still active is left as it is
MarkRateLimited_KeepActive(rl, e, t) ==
    IF rl[e] > t THEN rl ELSE [rl EXCEPT ![e] = t + COOLDOWN_MS]

\* endpoint.rateLimitedUntil = Date.now() + 30000, lines 2354 and 2366
MarkRateLimited(rl, e, t) == [rl EXCEPT ![e] = t + COOLDOWN_MS]

\* variant: every answer to a whitelisted method is stored
ShouldCache_Always(key, data) == Truthy(key)

\* cacheKey && result.result !== undefined && !result.error, line 2425
ShouldCache(key, data) ==
    /\ Truthy(key)
    /\ data.result.t # "undefined"
    /\ ~Truthy(data.error)

\* variant: the entry expires at once
CachePut_NoTtl(cache, key, result, t) ==
    [k \in DOMAIN cache \cup {key.v} |->
        IF k = key.v THEN [result |-> result, expiresAt |-> t]
        ELSE cache[k]]

\* variant: the entry lives twice as long
CachePut_DoubleTtl(cache, key, result, t) ==
    [k \in DOMAIN cache \cup {key.v} |->
        IF k = key.v
        THEN [result |-> result, expiresAt |-> t + 2 * CACHE_TTL_MS]
        ELSE cache[k]]

\* variant: an entry that is still valid is not replaced
CachePut_KeepExisting(cache, key, result, t) ==
    IF key.v \in DOMAIN cache /\ cache[key.v].expiresAt > t
    THEN cache
    ELSE [k \in DOMAIN cache \cup {key.v} |->
             IF k = key.v
             THEN [result |-> result, expiresAt |-> t + CACHE_TTL_MS]
             ELSE cache[k]]

\* variant: a write drops the entries that have expired
CachePut_Purging(cache, key, result, t) ==
    [k \in {j \in DOMAIN cache : cache[j].expiresAt > t} \cup {key.v} |->
        IF k = key.v THEN [result |-> result, expiresAt |-> t + CACHE_TTL_MS]
        ELSE cache[k]]

\* rpcCache.set(cacheKey, {result, expiresAt}), lines 2426-2429
CachePut(cache, key, result, t) ==
    [k \in DOMAIN cache \cup {key.v} |->
        IF k = key.v THEN [result |-> result, expiresAt |-> t + CACHE_TTL_MS]
        ELSE cache[k]]

\* variant: a skipped endpoint counts as a retry
RetriesAfterSkip_Counted(r) == r + 1

\* the retry count after an endpoint was skipped (continue, line 2418)
RetriesAfterSkip(r) == r

\* variant: a failed attempt is not counted
RetriesAfterFailure_Uncounted(r) == r

\* the retry count after an attempt threw (retries++, line 2446)
RetriesAfterFailure(r) == r + 1

\* variant: after a failure the loop starts over at the head of the pool
NextEligible_FromHead(from, rl, t) ==
    LET ok == {j \in Endpoints : ~InCooldown(rl[j], t)}
    IN  IF ok = {} THEN 0 ELSE CHOOSE j \in ok : \A k \in ok : j <= k

\* the first endpoint after position from that the for loop does not skip,
\* 0 when the loop runs off the end of the pool
NextEligible(from, rl, t) ==
    LET ok == {j \in Endpoints : j > from /\ ~InCooldown(rl[j], t)}
    IN  IF ok = {} THEN 0 ELSE CHOOSE j \in ok : \A k \in ok : j <= k

\* the number of endpoints the loop skips between from and to (to = 0: the end)
Skipped(from, to, rl, t) ==
    Cardinality({j \in Endpoints :
        j > from /\ (to = 0 \/ j < to) /\ InCooldown(rl[j], t)})

RECURSIVE Iterate(_, _)
\* RetriesAfterSkip applied n times
Iterate(r, n) == IF n = 0 THEN r ELSE Iterate(RetriesAfterSkip(r), n - 1)

(* ------------------------------ responses ------------------------------ *)

\* variant: the metadata block does not report the retry counter
Meta_NoRetries(used, latency, cached, r) ==
    [t |-> "object", rpcUsed |-> used, latencyMs |-> latency,
     cachedResult |-> cached, retries |-> 0]

Meta(used, latency, cached, r) ==
    [t |-> "object", rpcUsed |-> used, latencyMs |-> latency,
     cachedResult |-> cached, retries |-> r]

\* lines 2384-2388
InvalidRequestResponse(id) ==
    [status |-> 400, jsonrpc |-> "2.0", id |-> id, result |-> JsUndefined,
     error |-> JsErr(-32600, <<"Invalid", "Request:", "method", "required">>),
     meta |-> JsUndefined]

\* variant: a hit is not flagged as served from the cache
CacheHitResponse_NotFlagged(id, result, latency) ==
    [status |-> 200, jsonrpc |-> "2.0", id |-> id, result |-> result,
     error |-> JsUndefined,
     meta |-> Meta(JsStr("cache"), latency, FALSE, 0)]

\* lines 2396-2406
CacheHitResponse(id, result, latency) ==
    [status |-> 200, jsonrpc |-> "2.0", id |-> id, result |-> result,
     error |-> JsUndefined,
     meta |-> Meta(JsStr("cache"), latency, TRUE, 0)]

\* variant: the response names the endpoint at the head of the pool
SuccessResponse_HeadName(id, data, name, latency, r) ==
    [status |-> 200, jsonrpc |-> "2.0", id |-> id, result |-> data.result,
     error |-> data.error,
     meta |-> Meta(JsStr(RPC_ENDPOINTS[1]), latency, FALSE, r)]

\* lines 2432-2443
SuccessResponse(id, data, name, latency, r) ==
    [status |-> 200, jsonrpc |-> "2.0", id |-> id, result |-> data.result,
     error |-> data.error,
     meta |-> Meta(JsStr(name), latency, FALSE, r)]

\* lastError?.message
MessageOf(le) == IF le.t = "null" THEN JsUndefined ELSE JsText(le.message)

\* variant: endpointsTried reports the size of the pool
AllFailedResponse_PoolSize(id, le, latency, r) ==
    [status |-> 503, jsonrpc |-> "2.0", id |-> id, result |-> JsUndefined,
     error |-> [t |-> "object", code |-> -32603,
                message |-> <<"All", "RPC", "endpoints", "unavailable">>,
                data |-> [lastError |-> MessageOf(le),
                          endpointsTried |-> NumEndpoints,
                          suggestion |-> <<"Try", "again", "in", "30",
                                           "seconds">>]],
     meta |-> Meta(JsNull, latency, FALSE, r)]

\* lines 2453-2471
AllFailedResponse(id, le, latency, r) ==
    [status |-> 503, jsonrpc |-> "2.0", id |-> id, result |-> JsUndefined,
     error |-> [t |-> "object", code |-> -32603,
                message |-> <<"All", "RPC", "endpoints", "unavailable">>,
                data |-> [lastError |-> MessageOf(le), endpointsTried |-> r,
                          suggestion |-> <<"Try", "again", "in", "30",
                                           "seconds">>]],
     meta |-> Meta(JsNull, latency, FALSE, r)]

\* lines 2473-2479; req.body?.id || 1
InternalErrorResponse(body, msg) ==
    [status |-> 500, jsonrpc |-> "2.0",
     id |-> IF body.t = "undefined" THEN JsNum(1)
            ELSE OrElse(body.id, JsNum(1)),
     result |-> JsUndefined, error |-> JsErr(-32603, msg),
     meta |-> JsUndefined]

Error(words) == [t |-> "error", message |-> words]

NoResponse == [status |-> 0]

\* the cache key of a call is not computed yet
NoKey == [t |-> "pending"]

(* ------------------------------- actions ------------------------------- *)

InitProxy ==
    /\ now = 0
    /\ rateLimitedUntil = [e \in Endpoints |-> 0]
    /\ rpcCache = [k \in {} |-> JsNull]
    /\ pc = [p \in Procs |-> "idle"]
    /\ req = [p \in Procs |-> NoBody]
    /\ idx = [p \in Procs |-> 0]
    /\ retries = [p \in Procs |-> 0]
    /\ lastError = [p \in Procs |-> JsNull]
    /\ startTime = [p \in Procs |-> 0]
    /\ attemptStart = [p \in Procs |-> 0]
    /\ resp = [p \in Procs |-> NoResponse]
    /\ attempts = [p \in Procs |-> <<>>]
    /\ ticks = 0
    /\ started = [p \in Procs |-> 0]
    /\ quietSince = -1
    /\ paymentLog = [p \in Procs |-> 0]
    /\ agent_memory = <<>>
    /\ memRes = NoResponse
    /\ memGiven = <<>>
    /\ memOps = 0

Init ==
    /\ InitProxy
    /\ keyArgs = <<>>
    /\ keyOut = <<>>

\* const { jsonrpc, method, params = [], id = 1 } = req.body, line 2381
ParamsOf(body) == Default(body.params, JsArr(<<>>))

\* variant: a falsy id is replaced as well
IdOf_OrElse(body) == OrElse(body.id, JsNum(1))

IdOf(body) == Default(body.id, JsNum(1))

CacheKeyOf(body) == getCacheKey(body.method, ParamsOf(body))

SetOutcome(a, o) == [a EXCEPT ![Len(a)].outcome = o]

\* the request of dispatcher p arrives in this step
Arriving(p) == pc[p] \in {"idle", "done"}

\* the other dispatches that wait for an upstream endpoint
Others(p) == {q \in Procs \ {p} : pc[q] \in {"fetch", "json"}}

\* variant: every response that is not a server error is logged
ShouldLogPayment_NotServerError(statusCode) == statusCode < 500

\* res.statusCode === 200 && req.path.startsWith('/api/'), line 907, for
\* the paid route POST /api/rpc-proxy
ShouldLogPayment(statusCode) == statusCode = 200

\* the wrapper around res.json, lines 905-920: the number of payments
\* it logs
ResJson(statusCode) == IF ShouldLogPayment(statusCode) THEN 1 ELSE 0

\* the handler sends its response and returns
Finish(p, response, att) ==
    /\ pc' = [pc EXCEPT ![p] = "done"]
    /\ paymentLog' = [paymentLog EXCEPT ![p] = ResJson(response.status)]
    /\ quietSince' =
          IF response.status = 503 /\ Others(p) = {} THEN now
          ELSE IF Arriving(p) THEN -1
          ELSE quietSince
    /\ resp' = [resp EXCEPT ![p] = response]
    /\ idx' = [idx EXCEPT ![p] = 0]
    /\ retries' = [retries EXCEPT ![p] = 0]
    /\ lastError' = [lastError EXCEPT ![p] = JsNull]
    /\ startTime' = [startTime EXCEPT ![p] = 0]
    /\ attemptStart' = [attemptStart EXCEPT ![p] = 0]
    /\ attempts' = [attempts EXCEPT ![p] = att]

\* the for loop of lines 2415-2449 from position from on, up to its next
\* await (the fetch to the next endpoint it does not skip) or to the
\* total-failure response of lines 2451-2471
Proceed(p, body, st, from, r, le, rl, att) ==
    LET j == NextEligible(from, rl, now)
        r2 == Iterate(r, Skipped(from, j, rl, now))
    IN  IF j = 0
        THEN Finish(p, AllFailedResponse(IdOf(body), le, now - st, r2), att)
        ELSE /\ pc' = [pc EXCEPT ![p] = "fetch"]
             /\ paymentLog' = [paymentLog EXCEPT ![p] = 0]
             /\ quietSince' = IF Arriving(p) THEN -1 ELSE quietSince
             /\ idx' = [idx EXCEPT ![p] = j]
             /\ retries' = [retries EXCEPT ![p] = r2]
             /\ lastError' = [lastError EXCEPT ![p] = le]
             /\ startTime' = [startTime EXCEPT ![p] = st]
             /\ attemptStart' = [attemptStart EXCEPT ![p] = now]
             /\ resp' = [resp EXCEPT ![p] = NoResponse]
             /\ attempts' = [attempts EXCEPT ![p] =
                                Append(att, [ep |-> j, outcome |-> "pending"])]

\* the catch of lines 2444-2448 after the attempt on idx[p] threw
Failed(p, words, outcome, rl) ==
    Proceed(p, req[p], startTime[p], idx[p], RetriesAfterFailure(retries[p]),
            Error(words), rl, SetOutcome(attempts[p], outcome))

RECURSIVE SumUpTo(_)
SumUpTo(n) == IF n = 0 THEN 0 ELSE started[n] + SumUpTo(n - 1)

\* the number of requests that arrived so far
Arrived == SumUpTo(NumProcs)

\* a request arrives: lines 2378-2422, up to the first await
Start(p, body) ==
    /\ pc[p] \in {"idle", "done"}
    /\ Arrived < MaxDispatches
    /\ started' = [started EXCEPT ![p] = started[p] + 1]
    /\ req' = [req EXCEPT ![p] = body]
    /\ IF body.t = "undefined"
       THEN Finish(p, InternalErrorResponse(body,
                        <<"Cannot", "destructure", "property">>), <<>>)
       ELSE IF MethodMissing(body.method)
       THEN Finish(p, InvalidRequestResponse(IdOf(body)), <<>>)
       ELSE IF CacheHit(rpcCache, CacheKeyOf(body), now)
       THEN Finish(p, CacheHitResponse(IdOf(body),
                        rpcCache[CacheKeyOf(body).v].result, 0), <<>>)
       ELSE Proceed(p, body, now, 0, 0, JsNull, rateLimitedUntil, <<>>)
    /\ UNCHANGED <<now, rateLimitedUntil, rpcCache, ticks, keyVars,
                   memVars>>

\* the fetch of line 2343 resolves with a status: lines 2350-2362
FetchResponse(p, status) ==
    /\ pc[p] = "fetch"
    /\ now < attemptStart[p] + TIMEOUT_MS
    /\ IF IsRateLimitStatus(status)
       THEN /\ rateLimitedUntil' = MarkRateLimited(rateLimitedUntil, idx[p], now)
            /\ Failed(p, <<"Rate", "limited", ToString(status)>>,
                      "throttled", rateLimitedUntil')
       ELSE IF ~ResponseOk(status)
       THEN /\ UNCHANGED rateLimitedUntil
            /\ Failed(p, <<"HTTP", ToString(status)>>, "failed",
                      rateLimitedUntil)
       ELSE /\ pc' = [pc EXCEPT ![p] = "json"]
            /\ UNCHANGED <<rateLimitedUntil, idx, retries, lastError,
                           startTime, attemptStart, resp, attempts,
                           quietSince, paymentLog>>
    /\ UNCHANGED <<now, rpcCache, req, ticks, started, keyVars,
                   memVars>>

\* the fetch rejects: connection failure
FetchFailed(p) ==
    /\ pc[p] = "fetch"
    /\ Failed(p, <<"fetch", "failed">>, "failed", rateLimitedUntil)
    /\ UNCHANGED <<now, rateLimitedUntil, rpcCache, req, ticks, started,
                   keyVars, memVars>>

\* the timer of line 2340 aborts the fetch
FetchTimeout(p) ==
    /\ pc[p] = "fetch"
    /\ now >= attemptStart[p] + TIMEOUT_MS
    /\ Failed(p, <<"This", "operation", "was", "aborted">>, "failed",
              rateLimitedUntil)
    /\ UNCHANGED <<now, rateLimitedUntil, rpcCache, req, ticks, started,
                   keyVars, memVars>>

\* response.json() of line 2362 settles: lines 2362-2370 and 2424-2443
JsonBody(p, data) ==
    /\ pc[p] = "json"
    /\ IF data.t = "unparsable"
       THEN /\ Failed(p, <<"Unexpected", "token">>, "failed",
                      rateLimitedUntil)
            /\ UNCHANGED <<rateLimitedUntil, rpcCache>>
       ELSE IF IsRpcRateLimit(data)
       THEN /\ rateLimitedUntil' = MarkRateLimited(rateLimitedUntil, idx[p], now)
            /\ Failed(p, <<"RPC", "rate", "limited">>, "throttled",
                      rateLimitedUntil')
            /\ UNCHANGED rpcCache
       ELSE /\ rpcCache' =
                  IF ShouldCache(CacheKeyOf(req[p]), data)
                  THEN CachePut(rpcCache, CacheKeyOf(req[p]), data.result, now)
                  ELSE rpcCache
            /\ Finish(p, SuccessResponse(IdOf(req[p]), data,
                         RPC_ENDPOINTS[idx[p]], now - startTime[p],
                         retries[p]),
                      SetOutcome(attempts[p], "ok"))
            /\ UNCHANGED rateLimitedUntil
    /\ UNCHANGED <<now, req, ticks, started, keyVars,
                   memVars>>

\* time passes
Tick(d) ==
    /\ ticks < MaxTicks
    /\ ticks' = ticks + 1
    /\ now' = now + d
    /\ UNCHANGED <<rateLimitedUntil, rpcCache, pc, req, idx, retries,
                   lastError, startTime, attemptStart, resp, attempts,
                   started, keyVars, memVars, quietSince, paymentLog>>

Next ==
    \/ \E p \in Procs, body \in Requests : Start(p, body)
    \/ \E p \in Procs, status \in HttpStatuses : FetchResponse(p, status)
    \/ \E p \in Procs : FetchFailed(p)
    \/ \E p \in Procs : FetchTimeout(p)
    \/ \E p \in Procs, data \in Bodies : JsonBody(p, data)
    \/ \E d \in TickSteps : Tick(d)

Spec == Init /\ [][Next]_vars

(* ------------------ the proxy with two cacheable methods --------------- *)

NextCache ==
    \/ \E p \in Procs, body \in CacheRequests : Start(p, body)
    \/ \E p \in Procs, status \in HttpStatuses : FetchResponse(p, status)
    \/ \E p \in Procs : FetchFailed(p)
    \/ \E p \in Procs : FetchTimeout(p)
    \/ \E p \in Procs, data \in Bodies : JsonBody(p, data)
    \/ \E d \in TickSteps : Tick(d)

SpecCache == Init /\ [][NextCache]_vars

(* ------------------ the proxy with requests carrying ids --------------- *)

NextIds ==
    \/ \E p \in Procs, body \in IdRequests : Start(p, body)
    \/ \E p \in Procs, status \in HttpStatuses : FetchResponse(p, status)
    \/ \E p \in Procs : FetchFailed(p)
    \/ \E p \in Procs : FetchTimeout(p)
    \/ \E p \in Procs, data \in Bodies : JsonBody(p, data)
    \/ \E d \in TickSteps : Tick(d)

SpecIds == Init /\ [][NextIds]_vars

(* ------------------- the cache key as a function ----------------------- *)

\* two calls arrive at an idle proxy
InitKey ==
    /\ InitProxy
    /\ keyArgs \in [1..2 -> KeyCalls]
    /\ keyOut = [i \in 1..2 |-> NoKey]

\* the handler computes the cache key of call i: lines 2381 and 2392
ComputeKey(i) ==
    /\ keyOut[i] = NoKey
    /\ keyOut' = [keyOut EXCEPT ![i] = CacheKeyOf(keyArgs[i])]
    /\ UNCHANGED <<now, rateLimitedUntil, rpcCache, pc, req, idx, retries,
                   lastError, startTime, attemptStart, resp, attempts,
                   ticks, started, keyArgs, quietSince, paymentLog, memVars>>

NextKey == \E i \in 1..2 : ComputeKey(i)

SpecKey == InitKey /\ [][NextKey]_vars

(* --------------------------- the memory store -------------------------- *)

\* the characters of /^[a-zA-Z0-9_-]{1,100}$/
KeyChars ==
    {"a", "b", "c", "d", "e", "f", "g", "h", "i", "j", "k", "l", "m",
     "n", "o", "p", "q", "r", "s", "t", "u", "v", "w", "x", "y", "z",
     "A", "B", "C", "D", "E", "F", "G", "H", "I", "J", "K", "L", "M",
     "N", "O", "P", "Q", "R", "S", "T", "U", "V", "W", "X", "Y", "Z",
     "0", "1", "2", "3", "4", "5", "6", "7", "8", "9", "_", "-"}

\* isValidKey, lines 2929-2931
isValidKey(key) ==
    /\ key.t = "chars"
    /\ Len(key.v) \in 1..100
    /\ \A i \in 1..Len(key.v) : key.v[i] \in KeyChars

\* the values JSON text denotes, among those stored here
JsonValues == {JsNull, JsNum(7), JsStr("ab"), JsStr("abcdef")}

\* JSON.parse of a stored value, line 3030
JSONparse(text) == CHOOSE v \in JsonValues : JSONstringify(v) = text

\* new Date(ms).toISOString(), lines 3001, 3032, 3033, 3059
ISOString(ms) == [t |-> "iso", ms |-> ms]

\* keys of requests: absent, empty, three valid ones, one with a blank, one
\* of 101 characters
MemKeys ==
    {JsUndefined, JsChars(<<>>), JsChars(<<"k", "1">>), JsChars(<<"k", "2">>),
     JsChars(<<"k", "3">>), JsChars(<<"k", " ", "1">>),
     JsChars([i \in 1..101 |-> "k"])}

\* values of store requests: absent, a number, a short and a long string,
\* a number beyond the range of a double
MemValues ==
    {JsUndefined, JsNum(7), JsStr("ab"), JsStr("abcdef"), JsInfinity}

\* req.body of a store request
StoreBody(k, v, ns) == [t |-> "object", key |-> k, value |-> v, namespace |-> ns]

StoreBodies ==
    {NoBody} \cup
    {StoreBody(k, v, ns) :
        k \in MemKeys, v \in MemValues, ns \in {JsUndefined, JsStr("agent")}}

\* req.params of get, list and delete requests
PathNamespaces == {"public", "agent"}

PathKeys == {<<"k", "1">>, <<"k", "2">>, <<"k", "3">>}

\* SELECT COUNT(*) FROM agent_memory WHERE namespace = ?, lines 2967-2969
KeyCount(table, ns) == Cardinality({c \in DOMAIN table : c[1] = ns})

\* SELECT 1 FROM agent_memory WHERE namespace = ? AND key = ?, lines 2971-2973
HasRow(table, ns, key) == <<ns, key>> \in DOMAIN table

\* variant: the limit is compared with > instead of >=
NamespaceFull_OffByOne(existing, count) ==
    ~existing /\ count > MEMORY_MAX_KEYS_PER_NAMESPACE

\* !existingKey && keyCount.count >= MEMORY_MAX_KEYS_PER_NAMESPACE, line 2975
NamespaceFull(existing, count) ==
    ~existing /\ count >= MEMORY_MAX_KEYS_PER_NAMESPACE

\* variant: an overwrite resets the creation time
Upsert_ResetCreated(table, ns, key, serialized, size, t) ==
    [c \in DOMAIN table \cup {<<ns, key>>} |->
        IF c = <<ns, key>>
        THEN [value |-> serialized, size |-> size, created_at |-> t,
              updated_at |-> t]
        ELSE table[c]]

\* INSERT ... ON CONFLICT(namespace, key) DO UPDATE, lines 2986-2993
Upsert(table, ns, key, serialized, size, t) ==
    [c \in DOMAIN table \cup {<<ns, key>>} |->
        IF c = <<ns, key>>
        THEN [value |-> serialized, size |-> size,
              created_at |-> IF c \in DOMAIN table THEN table[c].created_at
                             ELSE t,
              updated_at |-> t]
        ELSE table[c]]

\* variant: the delete removes every row of the namespace
DeleteRow_Namespace(table, ns, key) ==
    [c \in {d \in DOMAIN table : d[1] # ns} |-> table[c]]

\* DELETE FROM agent_memory WHERE namespace = ? AND key = ?, lines 3075-3077
DeleteRow(table, ns, key) ==
    [c \in DOMAIN table \ {<<ns, key>>} |-> table[c]]

\* one more memory request is handled
MemStep ==
    /\ memOps < MaxMemOps
    /\ memOps' = memOps + 1
    /\ UNCHANGED <<now, ticks, proxyVars, keyVars>>

\* the handler answers without touching the table
MemReply(response) ==
    /\ memRes' = response
    /\ UNCHANGED <<agent_memory, memGiven>>

\* POST /api/memory/store, lines 2934-3008
MemStore(body) ==
    /\ MemStep
    /\ IF body.t = "undefined"
       THEN MemReply([op |-> "store", status |-> 500,
                      error |-> "Cannot destructure property"])
       ELSE LET namespace == OrElse(body.namespace, JsStr("public")).v
                key == body.key
                serialized == JSONstringify(body.value)
                size == Len(serialized)
                existingKey == HasRow(agent_memory, namespace, key.v)
                count == KeyCount(agent_memory, namespace)
            IN  IF ~Truthy(key) \/ ~isValidKey(key)
                THEN MemReply([op |-> "store", status |-> 400,
                               error |-> "Invalid key"])
                ELSE IF body.value = JsUndefined
                THEN MemReply([op |-> "store", status |-> 400,
                               error |-> "Value is required"])
                ELSE IF size > MEMORY_MAX_VALUE_SIZE
                THEN MemReply([op |-> "store", status |-> 400,
                               error |-> "Value too large"])
                ELSE IF NamespaceFull(existingKey, count)
                THEN MemReply([op |-> "store", status |-> 400,
                               error |-> "Namespace full",
                               currentCount |-> count])
                ELSE /\ agent_memory' = Upsert(agent_memory, namespace, key.v,
                                               serialized, size, now)
                     /\ memGiven' =
                           [c \in DOMAIN memGiven \cup {<<namespace, key.v>>} |->
                               IF c = <<namespace, key.v>> THEN body.value
                               ELSE memGiven[c]]
                     /\ memRes' = [op |-> "store", status |-> 200,
                                   success |-> TRUE, namespace |-> namespace,
                                   key |-> key.v, size |-> size,
                                   created |-> ~existingKey,
                                   updatedAt |-> ISOString(now)]

\* GET /api/memory/get/:namespace/:key, lines 3011-3040
MemGet(namespace, key) ==
    /\ MemStep
    /\ IF ~HasRow(agent_memory, namespace, key)
       THEN MemReply([op |-> "get", status |-> 404, error |-> "Key not found",
                      namespace |-> namespace, key |-> key])
       ELSE LET row == agent_memory[<<namespace, key>>]
            IN  MemReply([op |-> "get", status |-> 200,
                          namespace |-> namespace, key |-> key,
                          value |-> JSONparse(row.value), size |-> row.size,
                          createdAt |-> ISOString(row.created_at),
                          updatedAt |-> ISOString(row.updated_at)])

\* the rows of a namespace in an order of ORDER BY updated_at DESC
Listings(table, namespace) ==
    LET rows == {c \in DOMAIN table : c[1] = namespace}
        n == Cardinality(rows)
    IN  {o \in [1..n -> rows] :
            /\ \A i, j \in 1..n : i # j => o[i] # o[j]
            /\ \A i, j \in 1..n :
                  i < j => table[o[i]].updated_at >= table[o[j]].updated_at}

RECURSIVE TotalSize(_, _)
\* rows.reduce((acc, row) => acc + row.size, 0), line 3051
TotalSize(table, order) ==
    IF order = <<>> THEN 0
    ELSE table[Head(order)].size + TotalSize(table, Tail(order))

\* GET /api/memory/list/:namespace, lines 3043-3068
MemList(namespace) ==
    /\ MemStep
    /\ \E order \in Listings(agent_memory, namespace) :
          MemReply([op |-> "list", status |-> 200, namespace |-> namespace,
                    count |-> Len(order),
                    keys |-> [i \in 1..Len(order) |->
                                 [key |-> order[i][2],
                                  size |-> agent_memory[order[i]].size,
                                  updatedAt |->
                                     ISOString(agent_memory[order[i]].updated_at)]],
                    totalSize |-> TotalSize(agent_memory, order)])

\* DELETE /api/memory/delete/:namespace/:key, lines 3071-3090
MemDelete(namespace, key) ==
    /\ MemStep
    /\ agent_memory' = DeleteRow(agent_memory, namespace, key)
    /\ memGiven' = [c \in DOMAIN agent_memory' |-> memGiven[c]]
    /\ memRes' = [op |-> "delete", status |-> 200, success |-> TRUE,
                  deleted |-> DOMAIN agent_memory' # DOMAIN agent_memory,
                  namespace |-> namespace, key |-> key]

NextMemory ==
    \/ \E body \in StoreBodies : MemStore(body)
    \/ \E ns \in PathNamespaces, key \in PathKeys : MemGet(ns, key)
    \/ \E ns \in PathNamespaces : MemList(ns)
    \/ \E ns \in PathNamespaces, key \in PathKeys : MemDelete(ns, key)
    \/ \E d \in TickSteps : Tick(d)

SpecMemory == Init /\ [][NextMemory]_vars

(* ------------------------- vocabulary of the claims -------------------- *)

\* dispatch p received its request in this step
StartedBy(p) == started'[p] = started[p] + 1

\* dispatch p ran in this step
Acted(p) ==
    \/ StartedBy(p)
    \/ <<pc[p], idx[p], retries[p], lastError[p], resp[p], attempts[p]>>' #
       <<pc[p], idx[p], retries[p], lastError[p], resp[p], attempts[p]>>

HasMethod(body) ==
    /\ body.t = "object"
    /\ body.method.t = "string"
    /\ body.method.v # ""

Whitelisted(body) ==
    /\ HasMethod(body)
    /\ body.method.v \in
          {"eth_blockNumber", "eth_chainId", "net_version", "eth_gasPrice"}

\* the response was served from the cache
IsHit(r) == r.status = 200 /\ r.meta.cachedResult

\* the response passes on the answer of an upstream endpoint
IsUpstream(r) == r.status = 200 /\ ~r.meta.cachedResult

\* the endpoints dispatch p has called so far
Called(p) == {attempts[p][k].ep : k \in 1..Len(attempts[p])}

\* the first endpoint that is out of cooldown at time t, 0 if there is none
FirstOutOfCooldown(t) ==
    IF \A e \in Endpoints : rateLimitedUntil[e] > t THEN 0
    ELSE CHOOSE e \in Endpoints :
            /\ rateLimitedUntil[e] <= t
            /\ \A f \in 1..(e - 1) : rateLimitedUntil[f] > t

(* ------------------------------- claims -------------------------------- *)

C2_CachedWithinTtl ==
    [][\A p \in Procs :
          /\ (/\ pc[p] = "json"
              /\ pc'[p] = "done"
              /\ Whitelisted(req[p])
              /\ resp'[p].result.t # "undefined"
              /\ ~Truthy(resp'[p].error)) =>
                 LET k == CacheKeyOf(req[p]).v
                 IN  /\ k \in DOMAIN rpcCache'
                     /\ rpcCache'[k].result = resp'[p].result
                     /\ rpcCache'[k].expiresAt = now + 3000
          /\ (/\ StartedBy(p)
              /\ Whitelisted(req'[p])
              /\ CacheKeyOf(req'[p]).v \in DOMAIN rpcCache
              /\ now < rpcCache[CacheKeyOf(req'[p]).v].expiresAt) =>
                 /\ pc'[p] = "done"
                 /\ IsHit(resp'[p])
                 /\ resp'[p].result = rpcCache[CacheKeyOf(req'[p]).v].result
                 /\ attempts'[p] = <<>>]_vars

\* two calls of the same method, the second 1000 ms after the first: one
\* upstream call, the same result, the second from the cache
C2_Witness ==
    \E p, q \in Procs :
        /\ p # q
        /\ pc[p] = "done" /\ pc[q] = "done"
        /\ req[p] = req[q]
        /\ IsUpstream(resp[p])
        /\ Len(attempts[p]) = 1
        /\ IsHit(resp[q])
        /\ attempts[q] = <<>>
        /\ resp[q].result = resp[p].result
        /\ now = 1000

\* C3: an entry is no longer served once now >= expiresAt: a call of a
\* cacheable method that finds only an expired entry is a miss and goes to
\* the first endpoint that is out of cooldown.
C3_ExpiredIsMiss ==
    [][\A p \in Procs :
          (/\ StartedBy(p)
           /\ Whitelisted(req'[p])
           /\ CacheKeyOf(req'[p]).v \in DOMAIN rpcCache
           /\ now >= rpcCache[CacheKeyOf(req'[p]).v].expiresAt) =>
              /\ resp'[p].status # 200
              /\ FirstOutOfCooldown(now) # 0 =>
                    /\ pc'[p] = "fetch"
                    /\ Len(attempts'[p]) = 1]_vars

\* the second call arrives exactly CACHE_TTL_MS after the entry was written
\* and is sent upstream
C3_Witness ==
    \E p, q \in Procs :
        /\ p # q
        /\ pc[p] = "done"
        /\ IsUpstream(resp[p])
        /\ req[q] = req[p]
        /\ Whitelisted(req[q])
        /\ CacheKeyOf(req[q]).v \in DOMAIN rpcCache
        /\ rpcCache[CacheKeyOf(req[q]).v].expiresAt = now
        /\ now = 3000
        /\ pc[q] = "fetch"
        /\ Len(attempts[q]) = 1

\* C4: a dispatch of a method outside the whitelist never changes the
\* cache, is never answered from it (cachedResult is false in each of its
\* responses), and calls an endpoint whenever one is out of cooldown.
C4_NonCacheable ==
    [][\A p \in Procs :
          (Acted(p) /\ HasMethod(req'[p]) /\ ~Whitelisted(req'[p])) =>
             /\ rpcCache' = rpcCache
             /\ pc'[p] = "done" =>
                   /\ resp'[p].status \in {200, 503}
                   /\ ~resp'[p].meta.cachedResult
             /\ (StartedBy(p) /\ FirstOutOfCooldown(now) # 0) =>
                   /\ pc'[p] = "fetch"
                   /\ Len(attempts'[p]) = 1]_vars

\* the same call twice, both answered by an endpoint
C4_Witness ==
    \E p, q \in Procs :
        /\ p # q
        /\ pc[p] = "done" /\ pc[q] = "done"
        /\ req[p] = req[q]
        /\ HasMethod(req[p]) /\ ~Whitelisted(req[p])
        /\ IsUpstream(resp[p]) /\ IsUpstream(resp[q])
        /\ resp[p].result.t # "undefined"
        /\ Len(attempts[p]) = 1 /\ Len(attempts[q]) = 1

\* the statuses and bodies that signal throttling
ThrottlingStatus(status) == status \in {429, 503, 1015}

ThrottlingBody(data) ==
    /\ data.t = "object"
    /\ data.error.t = "object"
    /\ \/ data.error.code = -32005
       \/ Includes(data.error.message, <<"rate", "limit">>)

\* a JSON-RPC error that does not signal throttling
ApplicationError(data) ==
    /\ data.t = "object"
    /\ data.error.t = "object"
    /\ ~ThrottlingBody(data)

\* the endpoint dispatch p is waiting for answers with a throttling signal
ThrottledStep(p) ==
    \/ \E status \in HttpStatuses :
          ThrottlingStatus(status) /\ FetchResponse(p, status)
    \/ \E data \in Bodies : ThrottlingBody(data) /\ JsonBody(p, data)

\* the attempt of dispatch p fails without a throttling signal
OtherFailureStep(p) ==
    \/ \E status \in HttpStatuses :
          /\ ~ThrottlingStatus(status)
          /\ (status < 200 \/ status > 299)
          /\ FetchResponse(p, status)
    \/ FetchFailed(p)
    \/ FetchTimeout(p)
    \/ JsonBody(p, Unparsable)

\* after a failed attempt dispatch p goes on behind endpoint idx[p] with one
\* more retry, or gives up with the total-failure response
MovedOn(p) ==
    \/ /\ pc'[p] = "fetch"
       /\ idx'[p] > idx[p]
       /\ retries'[p] = retries[p] + 1
    \/ /\ pc'[p] = "done"
       /\ resp'[p].status = 503
       /\ resp'[p].meta.retries = retries[p] + 1

\* C5 as stated: a dispatch that skips the first k endpoints, which are in
\* cooldown, and succeeds at endpoint k+1 reports retries = k.
C5_Original ==
    \A p \in Procs :
        (pc[p] = "done" /\ IsUpstream(resp[p]) /\ Len(attempts[p]) = 1) =>
            /\ resp[p].meta.rpcUsed = JsStr(RPC_ENDPOINTS[attempts[p][1].ep])
            /\ resp[p].meta.retries = attempts[p][1].ep - 1

\* C5 amended: a dispatch that misses the cache goes to the first endpoint
\* that is out of cooldown without counting the endpoints it skips, so a
\* success at endpoint k+1 after k skipped endpoints reports retries = 0.
C5_SkippedNotCounted ==
    /\ [][\A p \in Procs :
            (StartedBy(p) /\ HasMethod(req'[p])
                /\ ~(pc'[p] = "done" /\ resp'[p].status = 200)) =>
               IF FirstOutOfCooldown(now) = 0
               THEN /\ pc'[p] = "done"
                    /\ resp'[p].status = 503
                    /\ attempts'[p] = <<>>
               ELSE /\ pc'[p] = "fetch"
                    /\ idx'[p] = FirstOutOfCooldown(now)
                    /\ attempts'[p] = <<[ep |-> FirstOutOfCooldown(now),
                                         outcome |-> "pending"]>>
                    /\ retries'[p] = 0]_vars
    /\ [](\A p \in Procs :
            (pc[p] = "done" /\ IsUpstream(resp[p]) /\ Len(attempts[p]) = 1) =>
               /\ resp[p].meta.rpcUsed =
                     JsStr(RPC_ENDPOINTS[attempts[p][1].ep])
               /\ resp[p].meta.retries = 0)

\* endpoint 1 is in cooldown and the dispatch was served by endpoint 2
C5_Witness ==
    \E p \in Procs :
        /\ pc[p] = "done"
        /\ IsUpstream(resp[p])
        /\ attempts[p] = <<[ep |-> 2, outcome |-> "ok"]>>
        /\ rateLimitedUntil[1] > now
        /\ resp[p].meta.retries = 0
        /\ resp[p].meta.rpcUsed = JsStr(RPC_ENDPOINTS[2])

\* C6: a dispatch that called every endpoint of the pool and got a
\* throttling signal from each answers with the total-failure envelope,
\* retries = N and rpcUsed null.
C6_AllThrottled ==
    \A p \in Procs :
        (/\ pc[p] = "done"
         /\ Len(attempts[p]) = NumEndpoints
         /\ \A k \in 1..Len(attempts[p]) :
               attempts[p][k].outcome = "throttled") =>
            /\ resp[p].status = 503
            /\ resp[p].error.code = -32603
            /\ resp[p].error.data.endpointsTried = NumEndpoints
            /\ resp[p].meta.retries = NumEndpoints
            /\ resp[p].meta.rpcUsed = JsNull

C6_Witness ==
    \E p \in Procs :
        /\ pc[p] = "done"
        /\ Len(attempts[p]) = NumEndpoints
        /\ \A k \in 1..Len(attempts[p]) :
              attempts[p][k] = [ep |-> k, outcome |-> "throttled"]
        /\ resp[p].status = 503

\* C7: a JSON-RPC error under a success status that is no throttling signal
\* ends the dispatch: it is passed on as it came, with the retries counted
\* so far (0 at the first endpoint), no cooldown is set and the cache is
\* not written.
C7_ApplicationErrorIsFinal ==
    /\ [][\A p \in Procs : \A data \in Bodies :
            (ApplicationError(data) /\ JsonBody(p, data)) =>
               /\ pc'[p] = "done"
               /\ resp'[p].status = 200
               /\ resp'[p].error = data.error
               /\ resp'[p].result = data.result
               /\ resp'[p].meta.rpcUsed = JsStr(RPC_ENDPOINTS[idx[p]])
               /\ resp'[p].meta.retries = retries[p]
               /\ Len(attempts'[p]) = Len(attempts[p])
               /\ rateLimitedUntil' = rateLimitedUntil
               /\ rpcCache' = rpcCache]_vars
    /\ [](\A p \in Procs :
            (/\ pc[p] = "done"
             /\ IsUpstream(resp[p])
             /\ resp[p].error.t = "object"
             /\ Len(attempts[p]) = 1) => resp[p].meta.retries = 0)

\* "method not found" for a whitelisted method at the first endpoint
C7_Witness ==
    \E p \in Procs :
        /\ pc[p] = "done"
        /\ Whitelisted(req[p])
        /\ IsUpstream(resp[p])
        /\ resp[p].error = JsErr(-32601, <<"method", "not", "found">>)
        /\ resp[p].meta.retries = 0
        /\ attempts[p] = <<[ep |-> 1, outcome |-> "ok"]>>
        /\ rateLimitedUntil[1] = 0
        /\ CacheKeyOf(req[p]).v \notin DOMAIN rpcCache

\* C8: a throttling signal from the endpoint a dispatch is waiting for sets
\* that endpoint's rateLimitedUntil to now + 30000 and no other, counts one
\* retry and sends the dispatch on to the next endpoint out of cooldown;
\* with endpoint 1 throttling and endpoint 2 answering, the response names
\* endpoint 2, retries = 1 and cachedResult false.
C8_ThrottledMarksAndMovesOn ==
    /\ [][\A p \in Procs :
            ThrottledStep(p) =>
               /\ rateLimitedUntil'[idx[p]] = now + 30000
               /\ rateLimitedUntil'[idx[p]] > now
               /\ \A e \in Endpoints \ {idx[p]} :
                     rateLimitedUntil'[e] = rateLimitedUntil[e]
               /\ MovedOn(p)
               /\ pc'[p] = "fetch" =>
                     /\ rateLimitedUntil[idx'[p]] <= now
                     /\ \A e \in (idx[p] + 1)..(idx'[p] - 1) :
                           rateLimitedUntil[e] > now]_vars
    /\ [](\A p \in Procs :
            (/\ pc[p] = "done"
             /\ attempts[p] = <<[ep |-> 1, outcome |-> "throttled"],
                                [ep |-> 2, outcome |-> "ok"]>>) =>
               /\ IsUpstream(resp[p])
               /\ resp[p].meta.rpcUsed = JsStr(RPC_ENDPOINTS[2])
               /\ resp[p].meta.retries = 1
               /\ rateLimitedUntil[1] >= 30000)

\* endpoint 1 answered 429 or the like, endpoint 2 answered 0x64
C8_Witness ==
    \E p \in Procs :
        /\ pc[p] = "done"
        /\ attempts[p] = <<[ep |-> 1, outcome |-> "throttled"],
                           [ep |-> 2, outcome |-> "ok"]>>
        /\ resp[p].result = JsStr("0x64")
        /\ resp[p].meta.retries = 1
        /\ rateLimitedUntil[1] > now
        /\ rateLimitedUntil[2] = 0

\* C9: rateLimitedUntil of an endpoint changes only in a step in which that
\* endpoint answers a dispatch with a throttling signal; any other failed
\* attempt counts one retry and moves on with all cooldowns as they were,
\* and so do invalid requests, cache hits and accepted answers.
C9_OnlyThrottlingMarks ==
    /\ [][\A e \in Endpoints :
            rateLimitedUntil'[e] # rateLimitedUntil[e] =>
               \E p \in Procs : idx[p] = e /\ ThrottledStep(p)]_vars
    /\ [][\A p \in Procs :
            OtherFailureStep(p) =>
               /\ rateLimitedUntil' = rateLimitedUntil
               /\ MovedOn(p)]_vars
    /\ [][\A p \in Procs :
            (Acted(p) /\ pc'[p] = "done" /\ resp'[p].status \in {200, 400}) =>
               rateLimitedUntil' = rateLimitedUntil]_vars

\* endpoint 1 failed without throttling and is still out of cooldown
C9_Witness ==
    \E p \in Procs :
        /\ Len(attempts[p]) = 2
        /\ attempts[p][1] = [ep |-> 1, outcome |-> "failed"]
        /\ attempts[p][2].ep = 2
        /\ retries[p] = 1
        /\ lastError[p] = Error(<<"HTTP", "500">>)
        /\ rateLimitedUntil[1] = 0

\* C10: rateLimitedUntil of every endpoint starts at 0 and never decreases,
\* and the pool keeps its endpoints.
C10_CooldownMonotone ==
    /\ (\A e \in Endpoints : rateLimitedUntil[e] = 0)
    /\ [][\A e \in Endpoints : rateLimitedUntil'[e] >= rateLimitedUntil[e]]_vars
    /\ [](DOMAIN rateLimitedUntil = 1..NumEndpoints)

\* endpoint 1 was marked by two dispatches, the second time later
C10_Witness ==
    \E p, q \in Procs :
        /\ p # q
        /\ Len(attempts[p]) >= 1 /\ Len(attempts[q]) >= 1
        /\ attempts[p][1] = [ep |-> 1, outcome |-> "throttled"]
        /\ attempts[q][1] = [ep |-> 1, outcome |-> "throttled"]
        /\ rateLimitedUntil[1] > 30000

\* C11 as stated: a throttling signal from an endpoint whose cooldown is
\* still active moves rateLimitedUntil strictly forward.
C11_Original ==
    [][\A p \in Procs :
          (ThrottledStep(p) /\ rateLimitedUntil[idx[p]] > now) =>
             /\ rateLimitedUntil'[idx[p]] = now + 30000
             /\ rateLimitedUntil'[idx[p]] > rateLimitedUntil[idx[p]]]_vars

\* C11 amended: the second mark sets rateLimitedUntil to now2 + 30000,
\* which is never earlier than the deadline of the first mark and is
\* strictly later exactly when the clock moved between the two marks.
C11_SecondMarkExtends ==
    [][\A p \in Procs :
          (ThrottledStep(p) /\ rateLimitedUntil[idx[p]] > now) =>
             /\ rateLimitedUntil'[idx[p]] = now + 30000
             /\ rateLimitedUntil'[idx[p]] >= rateLimitedUntil[idx[p]]
             /\ (rateLimitedUntil'[idx[p]] > rateLimitedUntil[idx[p]]) <=>
                   (now > rateLimitedUntil[idx[p]] - 30000)]_vars

\* two dispatches were waiting for endpoint 1; it throttled the first at
\* time 0 and the second at time 1000
C11_Witness ==
    \E p, q \in Procs :
        /\ p # q
        /\ Len(attempts[p]) >= 1 /\ Len(attempts[q]) >= 1
        /\ attempts[p][1] = [ep |-> 1, outcome |-> "throttled"]
        /\ attempts[q][1] = [ep |-> 1, outcome |-> "throttled"]
        /\ now = 1000
        /\ rateLimitedUntil[1] = 31000

\* C12: a dispatch calls endpoints in pool order and each at most once:
\* the endpoints of its calls are strictly increasing, and the loop is at
\* the endpoint of its latest call.
C12_PoolOrderOnce ==
    \A p \in Procs :
        /\ \A j, k \in 1..Len(attempts[p]) :
              j < k => attempts[p][j].ep < attempts[p][k].ep
        /\ \A k \in 1..Len(attempts[p]) :
              /\ attempts[p][k].ep \in Endpoints
              /\ (k < Len(attempts[p]) =>
                     attempts[p][k].outcome \in {"failed", "throttled"})
        /\ pc[p] \in {"fetch", "json"} =>
              /\ attempts[p] # <<>>
              /\ idx[p] = attempts[p][Len(attempts[p])].ep
              /\ attempts[p][Len(attempts[p])].outcome = "pending"

\* endpoint 1 failed without being put in cooldown and the dispatch is at
\* endpoint 2
C12_Witness ==
    \E p \in Procs :
        /\ pc[p] = "fetch"
        /\ attempts[p] = <<[ep |-> 1, outcome |-> "failed"],
                           [ep |-> 2, outcome |-> "pending"]>>
        /\ rateLimitedUntil[1] <= now

\* the request of a dispatch that starts is not answered from the cache
MissesCache(body) ==
    ~(/\ Whitelisted(body)
      /\ CacheKeyOf(body).v \in DOMAIN rpcCache
      /\ rpcCache[CacheKeyOf(body).v].expiresAt > now)

\* C13: a dispatch that misses the cache while every endpoint is in
\* cooldown answers in the step it arrives, without an upstream call and
\* without the clock moving, with the total-failure envelope: HTTP 503,
\* rpcUsed null, retries 0.
C13_AllInCooldown ==
    [][\A p \in Procs :
          (/\ StartedBy(p)
           /\ HasMethod(req'[p])
           /\ MissesCache(req'[p])
           /\ \A e \in Endpoints : rateLimitedUntil[e] > now) =>
              /\ pc'[p] = "done"
              /\ now' = now
              /\ attempts'[p] = <<>>
              /\ resp'[p].status = 503
              /\ resp'[p].error.code = -32603
              /\ resp'[p].error.data.endpointsTried = 0
              /\ resp'[p].meta.rpcUsed = JsNull
              /\ resp'[p].meta.retries = 0
              /\ resp'[p].meta.latencyMs = 0]_vars

C13_Witness ==
    \E p \in Procs :
        /\ pc[p] = "done"
        /\ HasMethod(req[p])
        /\ resp[p].status = 503
        /\ resp[p].meta.retries = 0
        /\ attempts[p] = <<>>
        /\ \A e \in Endpoints : rateLimitedUntil[e] > now

\* C14: whenever a dispatch starts a call to an endpoint, that endpoint is
\* out of cooldown (now >= rateLimitedUntil) and every endpoint the loop
\* passed over on its way is in cooldown; when it gives up, every endpoint
\* left was in cooldown.  Cooldowns set by other dispatches count.
C14_ContactedIffEligible ==
    [][\A p \in Procs :
          /\ Len(attempts'[p]) > Len(attempts[p]) \/ StartedBy(p) =>
                (pc'[p] = "fetch" =>
                    LET e == attempts'[p][Len(attempts'[p])].ep
                        from == IF StartedBy(p) THEN 0 ELSE idx[p]
                    IN  /\ now >= rateLimitedUntil'[e]
                        /\ \A f \in (from + 1)..(e - 1) :
                              rateLimitedUntil'[f] > now)
          /\ (Acted(p) /\ pc'[p] = "done" /\ resp'[p].status = 503) =>
                LET from == IF StartedBy(p) THEN 0 ELSE idx[p]
                IN  \A f \in (from + 1)..NumEndpoints :
                       rateLimitedUntil'[f] > now]_vars

\* dispatch p was waiting for endpoint 1 since time 0 when another dispatch
\* put endpoint 2 in cooldown at time 1000; p then failed at endpoint 1,
\* skipped endpoint 2 and gave up
C14_Witness ==
    \E p, q \in Procs :
        /\ p # q
        /\ pc[p] = "done"
        /\ attempts[p] = <<[ep |-> 1, outcome |-> "failed"]>>
        /\ resp[p].status = 503
        /\ resp[p].meta.retries = 1
        /\ resp[p].meta.latencyMs = 1000
        /\ now = 1000
        /\ rateLimitedUntil[1] = 0
        /\ rateLimitedUntil[2] = 31000
        /\ Len(attempts[q]) = 2
        /\ attempts[q][2] = [ep |-> 2, outcome |-> "throttled"]

\* the calls of dispatch p that failed
FailedCalls(p) ==
    {k \in 1..Len(attempts[p]) :
        attempts[p][k].outcome \in {"failed", "throttled"}}

\* the name of the endpoint dispatch p called last
LastCalled(p) == RPC_ENDPOINTS[attempts[p][Len(attempts[p])].ep]

\* the metadata block of response r reports these four values
HasMeta(r, used, latencies, cached, n) ==
    /\ r.meta.t = "object"
    /\ r.meta.rpcUsed = used
    /\ r.meta.latencyMs \in latencies
    /\ r.meta.cachedResult = cached
    /\ r.meta.retries = n

LastErrorIs(p, words) == resp'[p].error.data.lastError = JsText(words)

\* C16: a dispatch for a method answers with the total-failure envelope
\* (503, code -32603, rpcUsed null) exactly when it was not served from the
\* cache and none of its calls got a usable answer: every call failed and
\* every endpoint left was in cooldown.  error.data then carries the
\* message of the attempt that failed last (nothing if there was no
\* attempt) and endpointsTried is the number of endpoints called.  A
\* response passing on an upstream JSON-RPC error has status 200 and names
\* the endpoint that answered.
C16_TotalFailure ==
    [][\A p \in Procs :
          (Acted(p) /\ pc'[p] = "done" /\ HasMethod(req'[p])) =>
             LET gaveUp == resp'[p].status = 503
                 from == IF StartedBy(p) THEN 0 ELSE idx[p]
             IN  /\ gaveUp <=>
                       /\ ~IsHit(resp'[p])
                       /\ \A k \in 1..Len(attempts'[p]) :
                             attempts'[p][k].outcome \in
                                 {"failed", "throttled"}
                 /\ gaveUp =>
                       /\ resp'[p].error.code = -32603
                       /\ resp'[p].meta.rpcUsed = JsNull
                       /\ resp'[p].error.data.endpointsTried =
                             Len(attempts'[p])
                       /\ \A e \in (from + 1)..NumEndpoints :
                             rateLimitedUntil'[e] > now
                       /\ StartedBy(p) =>
                             resp'[p].error.data.lastError = JsUndefined
                       /\ \A status \in HttpStatuses :
                             FetchResponse(p, status) =>
                                LastErrorIs(p,
                                    IF status \in {429, 503, 1015}
                                    THEN <<"Rate", "limited", ToString(status)>>
                                    ELSE <<"HTTP", ToString(status)>>)
                       /\ FetchFailed(p) =>
                             LastErrorIs(p, <<"fetch", "failed">>)
                       /\ FetchTimeout(p) =>
                             LastErrorIs(p, <<"This", "operation", "was",
                                              "aborted">>)
                       /\ \A data \in Bodies :
                             JsonBody(p, data) =>
                                LastErrorIs(p,
                                    IF data = Unparsable
                                    THEN <<"Unexpected", "token">>
                                    ELSE <<"RPC", "rate", "limited">>)
                 /\ (~gaveUp /\ resp'[p].error # JsUndefined) =>
                       /\ resp'[p].status = 200
                       /\ attempts'[p] # <<>>
                       /\ attempts'[p][Len(attempts'[p])].outcome = "ok"
                       /\ resp'[p].meta.rpcUsed =
                             JsStr(RPC_ENDPOINTS[idx[p]])]_vars

\* endpoint 1 throttled the dispatch, the answer of endpoint 2 could not be
\* parsed, and the dispatch gave up naming the second failure
C16_Witness ==
    \E p \in Procs :
        /\ pc[p] = "done"
        /\ resp[p].status = 503
        /\ attempts[p] = <<[ep |-> 1, outcome |-> "throttled"],
                           [ep |-> 2, outcome |-> "failed"]>>
        /\ resp[p].error.data.endpointsTried = 2
        /\ resp[p].error.data.lastError = JsText(<<"Unexpected", "token">>)

\* the cache after an entry for key with this result is written at time t
WithEntry(cache, key, result, t) ==
    [k \in DOMAIN cache \cup {key} |->
        IF k = key THEN [result |-> result, expiresAt |-> t + 3000]
        ELSE cache[k]]

\* dispatch p accepts the answer of an upstream endpoint in this step
Accepts(p) == pc[p] = "json" /\ pc'[p] = "done" /\ resp'[p].status = 200

\* the answer dispatch p accepted carries a result and no error
CleanResult(r) == r.result # JsUndefined /\ r.error = JsUndefined

\* the results upstream endpoints return
UpstreamResults ==
    {d.result : d \in {b \in Bodies : b.t = "object"}} \ {JsUndefined}

\* C17: the cache changes only in the step in which a dispatch for a
\* whitelisted method accepts an upstream answer with a result and no
\* error, and then that step stores the result under the key of the
\* request, so that the response is sent with the entry in place; every
\* other step (failed attempt, total failure, answer with an error,
\* non-whitelisted method) leaves the cache as it is.  Hence every key in
\* the cache is the key of a whitelisted method and every stored result is
\* one an upstream endpoint returned.
C17_CacheWrittenOnCleanResult ==
    [][/\ \A p \in Procs :
             (Accepts(p) /\ Whitelisted(req[p]) /\ CleanResult(resp'[p])) =>
                rpcCache' = WithEntry(rpcCache, CacheKeyOf(req[p]).v,
                                      resp'[p].result, now)
       /\ rpcCache' # rpcCache =>
             \E p \in Procs :
                /\ Accepts(p)
                /\ Whitelisted(req[p])
                /\ CleanResult(resp'[p])
       /\ \A k \in DOMAIN rpcCache' :
             /\ \E m \in cacheable :
                   k = getCacheKey(JsStr(m), JsArr(<<>>)).v
             /\ rpcCache'[k].result \in UpstreamResults]_vars

\* an upstream answer with a result and an error was passed on for a
\* whitelisted method and the cache is still empty
C17_Witness ==
    \E p \in Procs :
        /\ pc[p] = "done"
        /\ Whitelisted(req[p])
        /\ resp[p].status = 200
        /\ resp[p].result # JsUndefined
        /\ resp[p].error # JsUndefined
        /\ DOMAIN rpcCache = {}

\* C19: a dispatch that finds a valid entry answers in the step it
\* arrives with the stored result, cachedResult true, rpcUsed "cache" and
\* retries 0; it makes no upstream call and leaves the cache (the expiry
\* of the entry included) and every cooldown unchanged.
C19_HitFrame ==
    [][\A p \in Procs :
          (StartedBy(p) /\ HasMethod(req'[p]) /\ ~MissesCache(req'[p])) =>
             /\ pc'[p] = "done"
             /\ resp'[p].status = 200
             /\ resp'[p].result = rpcCache[CacheKeyOf(req'[p]).v].result
             /\ resp'[p].error = JsUndefined
             /\ resp'[p].meta = Meta(JsStr("cache"), 0, TRUE, 0)
             /\ attempts'[p] = <<>>
             /\ rpcCache' = rpcCache
             /\ rateLimitedUntil' = rateLimitedUntil
             /\ now' = now]_vars

\* an entry written at time 0 was served at time 1000 and still expires at
\* time 3000
C19_Witness ==
    \E p \in Procs :
        /\ pc[p] = "done"
        /\ IsHit(resp[p])
        /\ attempts[p] = <<>>
        /\ now = 1000
        /\ rpcCache[CacheKeyOf(req[p]).v] =
              [result |-> resp[p].result, expiresAt |-> 3000]

\* C20: a dispatch that arrives while another dispatch for the same key
\* is waiting for an endpoint, and no valid entry exists, misses the cache
\* and calls that same endpoint if it is the first out of cooldown; and a
\* dispatch that accepts a cacheable answer overwrites the entry, so the
\* entry is that of the answer processed last.
C20_NoCoalescing ==
    [][\A p \in Procs :
          /\ (/\ StartedBy(p)
              /\ Whitelisted(req'[p])
              /\ MissesCache(req'[p])
              /\ \E q \in Procs \ {p} :
                    /\ pc[q] \in {"fetch", "json"}
                    /\ req[q] = req'[p]
                    /\ idx[q] = FirstOutOfCooldown(now)) =>
                /\ pc'[p] = "fetch"
                /\ idx'[p] = FirstOutOfCooldown(now)
                /\ rpcCache' = rpcCache
          /\ (/\ Accepts(p)
              /\ Whitelisted(req[p])
              /\ CleanResult(resp'[p])
              /\ CacheKeyOf(req[p]).v \in DOMAIN rpcCache) =>
                rpcCache'[CacheKeyOf(req[p]).v] =
                   [result |-> resp'[p].result, expiresAt |-> now + 3000]]_vars

\* two dispatches for the same key both called endpoint 1; the answers
\* differed and the entry is the one of the answer that came at time 1000
C20_Witness ==
    \E p, q \in Procs :
        /\ p # q
        /\ pc[p] = "done" /\ pc[q] = "done"
        /\ Whitelisted(req[p])
        /\ req[p] = req[q]
        /\ attempts[p] = <<[ep |-> 1, outcome |-> "ok"]>>
        /\ attempts[q] = <<[ep |-> 1, outcome |-> "ok"]>>
        /\ resp[p].meta.latencyMs = 0
        /\ resp[q].meta.latencyMs = 1000
        /\ resp[p].result # resp[q].result
        /\ CleanResult(resp[p]) /\ CleanResult(resp[q])
        /\ rpcCache[CacheKeyOf(req[p]).v] =
              [result |-> resp[q].result, expiresAt |-> 4000]

\* params after the destructuring default: an absent value is the empty
\* array
Given(body) ==
    IF body.params = JsUndefined THEN JsArr(<<>>) ELSE body.params

\* params with every falsy value (null, false, 0, "") replaced by the empty
\* array
Normalised(body) ==
    IF Given(body) \in {JsNull, JsBool(FALSE), JsNum(0), JsStr("")}
    THEN JsArr(<<>>)
    ELSE Given(body)

BothKeysComputed == keyOut # <<>> /\ \A i \in 1..2 : keyOut[i] # NoKey

C21_AttemptBounded ==
    [][\A p \in Procs :
          (pc[p] = "json" /\ Acted(p)) =>
             now < attemptStart[p] + TIMEOUT_MS]_vars

\* C27: the retry counter of a dispatch, while it runs and in its
\* response, is the number of endpoints it called that failed; an endpoint
\* skipped in cooldown adds nothing, so 0 <= retries <= N.  A success names
\* the endpoint called last, the only call that did not fail; every
\* endpoint before it was called and failed or was passed over in cooldown.
C27_RetriesCountFailedCalls ==
    [][\A p \in Procs :
          /\ pc'[p] \in {"fetch", "json"} =>
                retries'[p] = Cardinality(FailedCalls(p)')
          /\ (pc'[p] = "done" /\ resp'[p].status \in {200, 503}) =>
                /\ resp'[p].meta.retries = Cardinality(FailedCalls(p)')
                /\ resp'[p].meta.retries \in 0..NumEndpoints
          /\ (Len(attempts'[p]) > Len(attempts[p]) /\ Arriving(p)) =>
                retries'[p] = 0
          /\ (Len(attempts'[p]) > Len(attempts[p]) /\ ~Arriving(p)) =>
                retries'[p] = retries[p] + 1
          /\ Accepts(p) =>
                /\ resp'[p].meta.rpcUsed = JsStr(RPC_ENDPOINTS[idx[p]])
                /\ attempts'[p][Len(attempts'[p])] =
                      [ep |-> idx[p], outcome |-> "ok"]
                /\ \A k \in 1..(Len(attempts'[p]) - 1) :
                      attempts'[p][k].outcome \in {"failed", "throttled"}
                /\ resp'[p].meta.retries = Len(attempts'[p]) - 1]_vars

\* one dispatch was throttled by endpoint 1 and failed at endpoint 2
\* (retries 2 of 2); the other passed over endpoint 1 in cooldown and was
\* served by endpoint 2 with retries 0
C27_Witness ==
    \E p, q \in Procs :
        /\ pc[p] = "done" /\ pc[q] = "done"
        /\ resp[q].status = 503
        /\ resp[q].meta.retries = NumEndpoints
        /\ attempts[q][1].outcome = "throttled"
        /\ resp[p].status = 200
        /\ attempts[p] = <<[ep |-> 2, outcome |-> "ok"]>>
        /\ resp[p].meta.retries = 0
        /\ resp[p].meta.rpcUsed = JsStr(RPC_ENDPOINTS[2])

\* C28: an entry changes only by a write, which stores the accepted result
\* with expiresAt = now + 3000; hence expiresAt never decreases and never
\* exceeds now + 3000, and a hit serves the result of the latest write for
\* its key, made less than 3000 ms before the hit.
C28_FreshestWrite ==
    [][/\ \A k \in DOMAIN rpcCache' :
             /\ rpcCache'[k].expiresAt <= now' + 3000
             /\ k \in DOMAIN rpcCache =>
                   /\ rpcCache'[k].expiresAt >= rpcCache[k].expiresAt
                   /\ rpcCache'[k] # rpcCache[k] =>
                         \E p \in Procs :
                            /\ Accepts(p)
                            /\ CacheKeyOf(req[p]) = JsStr(k)
                            /\ rpcCache'[k] =
                                  [result |-> resp'[p].result,
                                   expiresAt |-> now + 3000]
       /\ \A p \in Procs :
             (StartedBy(p) /\ pc'[p] = "done" /\ IsHit(resp'[p])) =>
                LET e == rpcCache[CacheKeyOf(req'[p]).v]
                IN  /\ resp'[p].result = e.result
                    /\ now - (e.expiresAt - 3000) \in 0..2999]_vars

\* a result written at time 0 was served from the cache at time 1000
C28_Witness ==
    \E p, q \in Procs :
        /\ p # q
        /\ pc[p] = "done" /\ pc[q] = "done"
        /\ IsHit(resp[p])
        /\ IsUpstream(resp[q])
        /\ resp[q].meta.latencyMs = 0
        /\ resp[p].result = JsStr("0x65")
        /\ rpcCache[CacheKeyOf(req[p]).v] =
              [result |-> JsStr("0x65"), expiresAt |-> 3000]
        /\ now = 1000

\* C29: when the proxy gave up at time T with no other dispatch in flight
\* and no dispatch started since, then at any time >= T + 30000 no
\* endpoint is in cooldown, and a dispatch for a method that starts then
\* calls the first endpoint of the pool.
C29_RetryAfterCooldown ==
    [][\A p \in Procs :
          (/\ StartedBy(p)
           /\ HasMethod(req'[p])
           /\ quietSince >= 0
           /\ now >= quietSince + 30000) =>
              /\ \A e \in Endpoints : now >= rateLimitedUntil[e]
              /\ pc'[p] = "fetch"
              /\ attempts'[p] = <<[ep |-> 1, outcome |-> "pending"]>>]_vars

\* every endpoint throttled a dispatch at time 0; the dispatch that started
\* at time 30000 is calling endpoint 1
C29_Witness ==
    \E p, q \in Procs :
        /\ p # q
        /\ pc[q] = "done"
        /\ resp[q].status = 503
        /\ resp[q].meta.latencyMs = 0
        /\ \A e \in Endpoints : rateLimitedUntil[e] = 30000
        /\ now = 30000
        /\ pc[p] = "fetch"
        /\ attempts[p] = <<[ep |-> 1, outcome |-> "pending"]>>
        /\ startTime[p] = 30000

\* C30: a payment is logged for a request to the proxy exactly when its
\* response is sent with status 200, and then once: never for an invalid
\* request (400), a total failure (503) or an internal error (500), once
\* for a cache hit and once for an upstream JSON-RPC error passed on; while
\* the request is handled nothing is logged.
C30_PaymentLoggedOn200 ==
    \A p \in Procs :
        /\ pc[p] \in {"fetch", "json"} => paymentLog[p] = 0
        /\ pc[p] = "done" =>
              /\ paymentLog[p] = 1 <=> resp[p].status = 200
              /\ paymentLog[p] = 0 <=> resp[p].status \in {400, 500, 503}
              /\ paymentLog[p] \in {0, 1}

\* a passed-on upstream error was logged as a payment and an invalid
\* request was not
C30_Witness ==
    \E p, q \in Procs :
        /\ pc[p] = "done" /\ pc[q] = "done"
        /\ resp[p].status = 200
        /\ resp[p].error # JsUndefined
        /\ paymentLog[p] = 1
        /\ resp[q].status = 400
        /\ paymentLog[q] = 0

\* the id the response to this request is to carry
RequestId(body) ==
    IF body.t = "undefined" THEN JsNum(1)
    ELSE IF body.id = JsUndefined THEN JsNum(1)
    ELSE body.id

\* C22: a dispatch that has called an endpoint ends only with a success
\* (status 200) or with the total failure (503): the failure of one
\* endpoint makes it go on or give up, never answer by itself; and every
\* failure response is an envelope with jsonrpc, the id of the request (1
\* if it has none), error.code and error.message.
C22_FailureEnvelope ==
    [][\A p \in Procs :
          /\ (pc[p] \in {"fetch", "json"} /\ Acted(p)) =>
                \/ Accepts(p)
                \/ pc'[p] = "json" /\ idx'[p] = idx[p]
                \/ pc'[p] = "fetch" /\ idx'[p] > idx[p]
                \/ /\ pc'[p] = "done"
                   /\ resp'[p].status = 503
                   /\ \A e \in (idx[p] + 1)..NumEndpoints :
                         rateLimitedUntil'[e] > now
          /\ (pc'[p] = "done" /\ HasMethod(req'[p])) =>
                resp'[p].status \in {200, 503}
          /\ (pc'[p] = "done" /\ resp'[p].status # 200) =>
                /\ resp'[p].status \in {400, 500, 503}
                /\ resp'[p].jsonrpc = "2.0"
                /\ resp'[p].id = RequestId(req'[p])
                /\ resp'[p].result = JsUndefined
                /\ resp'[p].error.t = "object"
                /\ resp'[p].error.code \in {-32600, -32603}
                /\ resp'[p].error.message # <<>>]_vars

\* a request with id 0 ended in total failure after a connection error,
\* and the envelope carries id 0
C22_Witness ==
    \E p \in Procs :
        /\ pc[p] = "done"
        /\ req[p].t = "object"
        /\ req[p].id = JsNum(0)
        /\ resp[p].status = 503
        /\ resp[p].id = JsNum(0)
        /\ resp[p].error.data.lastError = JsText(<<"fetch", "failed">>)

\* C24: a lookup leaves the cache as it is, an expired entry included; no
\* step removes an entry; and a write replaces the entry of its own key
\* with the accepted result and expiresAt = now + 3000, whatever was there,
\* and leaves every other entry as it is.  (The cache is a map: it holds
\* one entry per key.)
C24_CacheFrame ==
    [][/\ \A p \in Procs :
             /\ StartedBy(p) => rpcCache' = rpcCache
             /\ (Accepts(p) /\ Whitelisted(req[p]) /\ CleanResult(resp'[p])) =>
                   LET k == CacheKeyOf(req[p]).v
                   IN  /\ rpcCache'[k] = [result |-> resp'[p].result,
                                          expiresAt |-> now + 3000]
                       /\ DOMAIN rpcCache' = DOMAIN rpcCache \cup {k}
                       /\ \A j \in DOMAIN rpcCache \ {k} :
                             rpcCache'[j] = rpcCache[j]
       /\ DOMAIN rpcCache \subseteq DOMAIN rpcCache'
       /\ rpcCache' # rpcCache => \E p \in Procs : Accepts(p)]_vars

\* the entry of a method expired at time 3000; a lookup at that time
\* missed it, the dispatch is calling endpoint 1, and the entry is still
\* in the map
C24_Witness ==
    \E p \in Procs :
        /\ pc[p] = "fetch"
        /\ startTime[p] = 3000
        /\ now = 3000
        /\ Whitelisted(req[p])
        /\ CacheKeyOf(req[p]).v \in DOMAIN rpcCache
        /\ rpcCache[CacheKeyOf(req[p]).v].expiresAt = 3000

\* the namespace a store request addresses: "public" when it names none
StoreNamespace(body) ==
    IF body.namespace = JsUndefined THEN "public" ELSE body.namespace.v

\* keys of 1 to 100 letters, digits, dashes and underscores
GoodKeys == {JsChars(k) : k \in PathKeys}

\* the store request carries a valid key
Keyed(body) == body # NoBody /\ body.key \in GoodKeys

\* the (namespace, key) row a store request with a valid key addresses
Cell(body) == <<StoreNamespace(body), body.key.v>>

\* the serialized value of the store request is longer than the limit
TooLarge(body) ==
    /\ body.value # JsUndefined
    /\ Len(JSONstringify(body.value)) > MEMORY_MAX_VALUE_SIZE

\* the store request passes the checks of key and value
Acceptable(body) ==
    Keyed(body) /\ body.value # JsUndefined /\ ~TooLarge(body)

\* the namespace of the store request holds the maximum number of keys
InFullNamespace(body) ==
    KeyCount(agent_memory, StoreNamespace(body)) >=
        MEMORY_MAX_KEYS_PER_NAMESPACE

\* a memory request was answered by this step
MemAnswered(op) ==
    memOps' = memOps + 1 /\ memRes'.op = op

\* C23: no namespace ever holds more than the maximum number of keys (1000
\* in the program, MEMORY_MAX_KEYS_PER_NAMESPACE here); a store of a new
\* key into a namespace that holds the maximum is answered 400 "Namespace
\* full" and changes nothing, and a store that overwrites a key of such a
\* namespace is accepted and writes the row.
C23_NamespaceLimit ==
    [][/\ \A ns \in PathNamespaces :
             KeyCount(agent_memory', ns) <= MEMORY_MAX_KEYS_PER_NAMESPACE
       /\ \A body \in StoreBodies :
             (/\ MemAnswered("store")
              /\ Acceptable(body) /\ InFullNamespace(body)
              /\ MemStore(body)) =>
                IF Cell(body) \in DOMAIN agent_memory
                THEN /\ memRes'.status = 200
                     /\ memRes'.created = FALSE
                     /\ Cell(body) \in DOMAIN agent_memory'
                     /\ agent_memory'[Cell(body)].value =
                           JSONstringify(body.value)
                     /\ agent_memory'[Cell(body)].updated_at = now
                ELSE /\ memRes'.status = 400
                     /\ memRes'.error = "Namespace full"
                     /\ agent_memory' = agent_memory]_vars

\* a namespace holds the maximum number of keys and the last request, a
\* store of one more key, was answered 400 "Namespace full"
C23_Witness ==
    /\ memRes.status = 400
    /\ memRes.error = "Namespace full"
    /\ memRes.currentCount = MEMORY_MAX_KEYS_PER_NAMESPACE
    /\ \E ns \in PathNamespaces :
          KeyCount(agent_memory, ns) = MEMORY_MAX_KEYS_PER_NAMESPACE

\* the store request is one the handler rejects: its key is missing or
\* invalid, its value is missing, its serialized value is too long, or it
\* brings a new key to a full namespace
Rejected(body) ==
    /\ body # NoBody
    /\ \/ ~Keyed(body)
       \/ body.value = JsUndefined
       \/ TooLarge(body)
       \/ /\ Keyed(body)
          /\ Cell(body) \notin DOMAIN agent_memory
          /\ InFullNamespace(body)

ReadBack(v) == IF v = JsInfinity THEN JsNull ELSE v

\* the store request with a valid key and value is accepted as the claim
\* says: created tells whether the row is new, the row takes the value, its
\* size and the time of the request, and keeps its creation time if it
\* existed
StoreAccepted(body) ==
    /\ memRes'.status = 200
    /\ memRes'.namespace = StoreNamespace(body)
    /\ memRes'.key = body.key.v
    /\ memRes'.created = (Cell(body) \notin DOMAIN agent_memory)
    /\ Cell(body) \in DOMAIN agent_memory'
    /\ agent_memory'[Cell(body)].value = JSONstringify(body.value)
    /\ agent_memory'[Cell(body)].size = Len(JSONstringify(body.value))
    /\ agent_memory'[Cell(body)].updated_at = now
    /\ agent_memory'[Cell(body)].created_at =
          IF Cell(body) \in DOMAIN agent_memory
          THEN agent_memory[Cell(body)].created_at
          ELSE now
    /\ \A c \in DOMAIN agent_memory \ {Cell(body)} :
          c \in DOMAIN agent_memory' /\ agent_memory'[c] = agent_memory[c]

\* what the claim says of store, delete and of a get of a missing key
StoreAndDelete ==
    /\ \A body \in StoreBodies :
          (/\ MemAnswered("store")
           /\ Acceptable(body) /\ ~Rejected(body)
           /\ MemStore(body)) =>
             StoreAccepted(body)
    /\ \A ns \in PathNamespaces, key \in PathKeys :
          /\ (MemAnswered("delete") /\ MemDelete(ns, key)) => <<ns, key>> \notin DOMAIN agent_memory'
          /\ (/\ MemAnswered("get")
              /\ <<ns, key>> \notin DOMAIN agent_memory
              /\ MemGet(ns, key)) =>
                memRes'.status = 404

====
